---------------------------- MODULE Spec2Model ----------------------------
(***************************************************************************)
(* State-machine model of the unified_stake_trading program               *)
(* (src/contract.rs): initialize_agent_pool, stake, execute_trade and     *)
(* withdraw acting on AgentPool and StakePosition accounts and on the     *)
(* balance of the pool vault.                                              *)
(*                                                                         *)
(* Amounts are u64 (and u128 intermediates) in the program.  TLC's        *)
(* integers are 32 bits wide, so an amount is held here as a number in    *)
(* base 10000: a sequence of limbs in 0..9999, least significant limb     *)
(* first, without leading zero limbs (the empty sequence is 0).  All      *)
(* constants of the program keep their real values.                       *)
(***************************************************************************)
EXTENDS Integers, Sequences, FiniteSets, TLC

(***************************************************************************)
(* Natural numbers of any size, base 10000.                               *)
(***************************************************************************)
Base == 10 ^ 4

RECURSIVE Norm(_)
Norm(s) ==
    IF s = <<>> THEN <<>>
    ELSE IF s[Len(s)] = 0 THEN Norm(SubSeq(s, 1, Len(s) - 1))
    ELSE s

RECURSIVE N(_)
N(n) ==
    IF n = 0 THEN <<>> ELSE <<n % Base>> \o N(n \div Base)

RECURSIVE Rev(_)
Rev(s) ==
    IF s = <<>> THEN <<>> ELSE Rev(Tail(s)) \o <<Head(s)>>

\* Dec(<<1844, 6744, 737, 955, 1615>>) is 18446744073709551615: the decimal
\* digits in groups of four, most significant group first.
Dec(groups) ==
    Norm(Rev(groups))

RECURSIVE AddC(_, _, _)
AddC(a, b, c) ==
    IF a = <<>> /\ b = <<>> THEN (IF c = 0 THEN <<>> ELSE <<c>>)
    ELSE LET x == IF a = <<>> THEN 0 ELSE Head(a)
             y == IF b = <<>> THEN 0 ELSE Head(b)
             t == x + y + c
         IN  <<t % Base>> \o AddC(IF a = <<>> THEN <<>> ELSE Tail(a),
                                 IF b = <<>> THEN <<>> ELSE Tail(b),
                                 t \div Base)

BAdd(a, b) ==
    AddC(a, b, 0)

RECURSIVE CmpFrom(_, _, _)
CmpFrom(a, b, i) ==
    IF i = 0 THEN 0
    ELSE IF a[i] < b[i] THEN -1
    ELSE IF a[i] > b[i] THEN 1
    ELSE CmpFrom(a, b, i - 1)

\* -1, 0 or 1 as a < b, a = b, a > b.
BCmp(a, b) ==
    IF Len(a) < Len(b) THEN -1
    ELSE IF Len(a) > Len(b) THEN 1
    ELSE CmpFrom(a, b, Len(a))

BLt(a, b) == BCmp(a, b) = -1
BLe(a, b) == BCmp(a, b) # 1

RECURSIVE SubB(_, _, _)
SubB(a, b, br) ==
    IF a = <<>> THEN <<>>
    ELSE LET y == IF b = <<>> THEN 0 ELSE Head(b)
             t == Head(a) - y - br
         IN  <<IF t < 0 THEN t + Base ELSE t>>
                 \o SubB(Tail(a), IF b = <<>> THEN <<>> ELSE Tail(b),
                         IF t < 0 THEN 1 ELSE 0)

\* a - b, for b <= a.
BSub(a, b) ==
    Norm(SubB(a, b, 0))

RECURSIVE MulC(_, _, _)
MulC(a, k, c) ==
    IF a = <<>> THEN N(c)
    ELSE LET t == Head(a) * k + c
         IN  <<t % Base>> \o MulC(Tail(a), k, t \div Base)

\* a * k for a limb-sized k (0..Base).
BMulS(a, k) ==
    IF k = 0 THEN <<>> ELSE MulC(a, k, 0)

RECURSIVE BMul(_, _)
BMul(a, b) ==
    IF a = <<>> \/ b = <<>> THEN <<>>
    ELSE LET rest == BMul(a, Tail(b))
         IN  BAdd(BMulS(a, Head(b)), IF rest = <<>> THEN <<>> ELSE <<0>> \o rest)

\* The largest q in lo..hi with d * q <= r (d * lo <= r is given).
RECURSIVE Digit(_, _, _, _)
Digit(r, d, lo, hi) ==
    IF lo = hi THEN lo
    ELSE LET mid == (lo + hi + 1) \div 2
         IN  IF BLe(BMulS(d, mid), r) THEN Digit(r, d, mid, hi)
             ELSE Digit(r, d, lo, mid - 1)

\* One step of long division, each intermediate value computed once: with
\* the quotient limbs qs so far and the running remainder r, the next
\* quotient limb q and the new remainder.
DivDigit(qs, r, d) ==
    CHOOSE res \in
        {<<Norm(<<q>> \o qs), BSub(r, BMulS(d, q))>> :
            q \in {IF BLt(r, d) THEN 0 ELSE Digit(r, d, 0, Base - 1)}} : TRUE

\* hi is <<quotient, remainder>> of the higher limbs, h the next limb down.
DivStep(hi, h, d) ==
    CHOOSE res \in
        {DivDigit(hi[1], r, d) : r \in {Norm(<<h>> \o hi[2])}} : TRUE

\* Long division: <<floor(n / d), n mod d>>, for d # 0.
RECURSIVE DivMod(_, _)
DivMod(n, d) ==
    IF n = <<>> THEN <<<<>>, <<>>>>
    ELSE CHOOSE res \in
             {DivStep(hi, Head(n), d) : hi \in {DivMod(Tail(n), d)}} : TRUE

BDiv(n, d) == DivMod(n, d)[1]
BMod(n, d) == DivMod(n, d)[2]

\* floor(n / 10000): drop the lowest limb.
BDiv10000(n) ==
    IF n = <<>> THEN <<>> ELSE Tail(n)

\* The value of a number known to be below 2^31 as a TLC integer.
RECURSIVE ToInt(_)
ToInt(a) ==
    IF a = <<>> THEN 0 ELSE Head(a) + Base * ToInt(Tail(a))

(***************************************************************************)
(* Program constants (src/contract.rs:31-37) and integer widths.          *)
(***************************************************************************)
MIN_STAKE_SOL == 1000000000
UNSTAKE_FEE_BPS == 1000
STAKE_FEE_BPS == 300
MIN_STAKE_DURATION == 3600
MIN_SHARE_BPS == 10
MAX_TRADE_SIZE_BPS == 2000
DUST_THRESHOLD == 1000

Zero == <<>>
\* u64::MAX = 18446744073709551615, and 2^64.
U64Max == Dec(<<1844, 6744, 737, 955, 1615>>)
TwoTo64 == BAdd(U64Max, N(1))
\* 2^16, the modulus of the `as u16` cast.
TwoTo16 == 65536

Fits64(v) == BLe(v, U64Max)
\* The low 64 bits of v: what wrapping u64 arithmetic and `as u64` keep.
Wrap64(v) == IF Fits64(v) THEN v ELSE BMod(v, TwoTo64)

(***************************************************************************)
(* Identities and the inputs the operations are called with.              *)
(***************************************************************************)
PoolAgents == {"agent"}
Users == {"alice", "bob"}
Callers == PoolAgents \cup {"alice"}

\* Gross stake amounts: below the minimum, the minimum, and 2 SOL.
StakeAmounts ==
    {N(999999999), N(MIN_STAKE_SOL), N(2000000000)}

\* Gross stake amounts at the wide end of u64: 2 SOL next to 10^17, whose
\* product with STAKE_FEE_BPS exceeds u64::MAX.
WideAmounts ==
    {N(2000000000), Dec(<<10, 0, 0, 0, 0>>)}

\* amount_in of a trade: 388,000,000 (20% of a 1,940,000,000 pool, 40% of a
\* 970,000,000 one) and 12,713,984,000 (= 65536 * 194,000).
TradeAmounts ==
    {N(388000000), Dec(<<127, 1398, 4000>>)}

\* The Swap Executor's answer to a delegated swap: it fails, or it takes
\* amount_in out of the vault and pays back nothing ("loss") or twice
\* amount_in ("gain").
SwapResults == {"fail", "loss", "gain"}

\* amount_in of the swaps that drain a vault of 1,940,000,000: five of
\* 388,000,000 empty it; each 387,999,500 among the five leaves 500.
DrainAmounts ==
    {N(388000000), N(387999500)}

\* Bounds of the exploration: successful stakes, successful swaps, clock ticks.
MaxStakes == 3
MaxTrades == 2
MaxTicks == 2
\* Successful swaps in the draining runs (five losses of 388,000,000 empty
\* a vault of 1,940,000,000).
MaxDrainTrades == 5
\* Successful swaps in the runs with trading gains (one loss and two gains
\* of 388,000,000 put a second staker in profit).
MaxProfitTrades == 3

VARIABLES
    overflow_checks,  \* build profile: TRUE = arithmetic overflow panics,
                      \* FALSE = it wraps (Rust release default)
    pool,             \* agent -> AgentPool account, or NoPool
    position,         \* <<owner, agent>> -> StakePosition account, or NoPosition
    vault,            \* agent -> balance (amount) of the pool vault token account
    clock,            \* Clock::get()?.unix_timestamp
    last,             \* the last call: operation, inputs, result, computed values
    hist              \* history: counts and sums over the successful calls

vars == <<overflow_checks, pool, position, vault, clock, last, hist>>

(***************************************************************************)
(* Accounts.                                                               *)
(***************************************************************************)
NoPool == [exists |-> FALSE]
NoPosition == [open |-> FALSE]

\* struct AgentPool; fee_destination is never assigned and stays default.
AgentPool(agent, total_staked, paused, total_shares_bps, emergency_mode) ==
    [exists |-> TRUE, agent |-> agent, total_staked |-> total_staked,
     fee_destination |-> "default", vault |-> <<"pool_vault", agent>>,
     paused |-> paused, total_shares_bps |-> total_shares_bps,
     emergency_mode |-> emergency_mode]

\* struct StakePosition.
StakePosition(owner, agent_pool, initial_stake, share_bps, stake_timestamp) ==
    [open |-> TRUE, owner |-> owner, agent_pool |-> agent_pool,
     initial_stake |-> initial_stake, share_bps |-> share_bps,
     stake_timestamp |-> stake_timestamp]

\* enum ErrorCode.
ErrorCode ==
    {"Unauthorized", "StakeTooSmall", "RaydiumError", "InvalidShare",
     "TradeSizeTooLarge", "PoolPaused", "MathOverflow", "ShareTooSmall",
     "StakeDurationNotMet", "DustAmount", "EmergencyOnly"}

\* What a handler hands back: its result, the accounts as it left them in
\* memory, the vault balance after the transfers it issued, and the values
\* it computed on the way.  err is "Ok", an ErrorCode, "Panic" (arithmetic
\* overflow under overflow checks, division by zero), "TokenError" (a
\* token transfer failed) or "AccountError" (account validation failed).
Outcome(po, ps, v) ==
    [err |-> "Ok", pool |-> po, pos |-> ps, vault |-> v, xfers |-> <<>>,
     swapped |-> FALSE, fee |-> Zero, stake_amount |-> Zero,
     share_bps |-> Zero, share_amount |-> Zero, withdrawal_amount |-> Zero,
     trade_size_bps |-> 0]

Transfer(from, to, amount) ==
    [from |-> from, to |-> to, amount |-> amount]

\* Rollback without the runtime's revert: whatever the handler wrote before
\* it returned Err stays written.
Rollback_Partial(err, before, after) ==
    after

\* A handler returning Err: the transaction is rolled back, so the accounts
\* and the vault keep their pre-call values; Ok commits what the handler
\* wrote.
Rollback(err, before, after) ==
    IF err = "Ok" THEN after ELSE before

(***************************************************************************)
(* The instruction handlers.  Unchecked u64 arithmetic (a * b, a + b)     *)
(* panics when overflow_checks is set and the result does not fit, and    *)
(* wraps otherwise; checked_add / checked_sub give MathOverflow.          *)
(***************************************************************************)

\* initialize_agent_pool: emergency_mode and fee_destination are not
\* assigned and keep the zeroed account's defaults.
initialize_agent_pool(agent) ==
    AgentPool(agent, Zero, FALSE, Zero, FALSE)

\* The assignments to the new StakePosition at the end of stake.
NewPosition(owner, agent, stake_amount, share_bps, now) ==
    StakePosition(owner, agent, stake_amount, share_bps, now)

\* The share cap with the comparison left out.
WithinShareCap_Unchecked(shares_sum) ==
    TRUE

\* require!(pool.total_shares_bps + share_bps <= 10000, InvalidShare), on
\* the u64 value of the sum.
WithinShareCap(shares_sum) ==
    BLe(Wrap64(shares_sum), N(10000))

\* stake(ctx, amount).  po: the AgentPool, v: the vault balance, funded:
\* whether the user's token account covers the two transfers.
stake(po, owner, amount, funded, v, now) ==
    LET o == Outcome(po, NoPosition, v)
        prod == BMul(amount, N(STAKE_FEE_BPS))
        stake_fee == BDiv10000(Wrap64(prod))
        stake_amount == BSub(amount, stake_fee)
        sum == BAdd(po.total_staked, stake_amount)
        first == po.total_staked = Zero
        share_bps ==
            IF first THEN N(10000)
            ELSE Wrap64(BDiv(BMul(stake_amount, N(10000)), Wrap64(sum)))
        shares_sum == BAdd(po.total_shares_bps, share_bps)
        c1 == [o EXCEPT !.fee = stake_fee, !.stake_amount = stake_amount]
        c2 == [c1 EXCEPT !.share_bps = share_bps]
        \* after the two token::transfer calls
        c3 == [c2 EXCEPT !.vault = BAdd(v, stake_amount),
                         !.xfers = <<Transfer("user", "vault", stake_amount),
                                     Transfer("user", "fee", stake_fee)>>]
        \* after pool.total_staked = ...checked_add(stake_amount)
        c4 == [c3 EXCEPT !.pool.total_staked = sum]
        c5 == [c4 EXCEPT !.pool.total_shares_bps = shares_sum,
                         !.pos = NewPosition(owner, po.agent, stake_amount,
                                             share_bps, now)]
    IN  IF BLt(amount, N(MIN_STAKE_SOL)) THEN [o EXCEPT !.err = "StakeTooSmall"]
        ELSE IF po.paused THEN [o EXCEPT !.err = "PoolPaused"]
        ELSE IF overflow_checks /\ ~Fits64(prod) THEN [o EXCEPT !.err = "Panic"]
        ELSE IF ~first /\ overflow_checks /\ ~Fits64(sum)
            THEN [c1 EXCEPT !.err = "Panic"]
        ELSE IF ~first /\ Wrap64(sum) = Zero THEN [c1 EXCEPT !.err = "Panic"]
        ELSE IF BLt(share_bps, N(MIN_SHARE_BPS))
            THEN [c2 EXCEPT !.err = "ShareTooSmall"]
        ELSE IF overflow_checks /\ ~Fits64(shares_sum)
            THEN [c2 EXCEPT !.err = "Panic"]
        ELSE IF ~WithinShareCap(shares_sum)
            THEN [c2 EXCEPT !.err = "InvalidShare"]
        ELSE IF ~funded \/ ~Fits64(BAdd(v, stake_amount))
            THEN [c2 EXCEPT !.err = "TokenError"]
        ELSE IF ~Fits64(sum) THEN [c3 EXCEPT !.err = "MathOverflow"]
        ELSE IF ~Fits64(shares_sum) THEN [c4 EXCEPT !.err = "MathOverflow"]
        ELSE c5

\* The agent constraint letting every signer through.
Authorized_Anyone(po, caller) ==
    TRUE

\* constraint = agent_pool.agent == agent.key() @ ErrorCode::Unauthorized
Authorized(po, caller) ==
    po.agent = caller

\* The swap's result booked into the pool's principal as well.
Swapped_Booked(c, after) ==
    [c EXCEPT !.vault = after, !.pool.total_staked = after]

\* invoke(...) of the swap returned Ok: the Swap Executor has moved tokens of
\* the vault; the handler writes no account of its own.
Swapped(c, after) ==
    [c EXCEPT !.vault = after]

\* execute_trade(ctx, swap).  The account constraint on `agent` is checked
\* before the handler body runs.  result is the Swap Executor's answer.
execute_trade(po, caller, amount_in, result, v) ==
    LET o == Outcome(po, NoPosition, v)
        quot == BDiv(BMul(amount_in, N(10000)), po.total_staked)
        trade_size_bps == ToInt(BMod(quot, N(TwoTo16)))
        c1 == [o EXCEPT !.trade_size_bps = trade_size_bps]
        c2 == [c1 EXCEPT !.swapped = TRUE]
        proceeds == IF result = "gain" THEN BMulS(amount_in, 2) ELSE Zero
        after == BAdd(BSub(v, amount_in), proceeds)
    IN  IF ~Authorized(po, caller) THEN [o EXCEPT !.err = "Unauthorized"]
        ELSE IF po.paused THEN [o EXCEPT !.err = "PoolPaused"]
        ELSE IF po.total_staked = Zero THEN [o EXCEPT !.err = "Panic"]
        ELSE IF trade_size_bps > MAX_TRADE_SIZE_BPS
            THEN [c1 EXCEPT !.err = "TradeSizeTooLarge"]
        ELSE IF result = "fail" \/ BLt(v, amount_in) THEN [c2 EXCEPT !.err = "RaydiumError"]
        ELSE IF ~Fits64(after) THEN [c2 EXCEPT !.err = "RaydiumError"]
        ELSE Swapped(c2, after)

\* The lock check with the emergency test inverted.
LockElapsed_Inverted(emergency_mode, now, stake_timestamp) ==
    ~emergency_mode \/ now >= stake_timestamp + MIN_STAKE_DURATION

\* The lock check of withdraw: skipped in emergency mode, else
\* current_time >= position.stake_timestamp + MIN_STAKE_DURATION.
LockElapsed(emergency_mode, now, stake_timestamp) ==
    emergency_mode \/ now >= stake_timestamp + MIN_STAKE_DURATION

\* The dust check testing for an empty payout only.
IsDust_ZeroOnly(share_amount) ==
    share_amount = Zero

\* if share_amount < DUST_THRESHOLD
IsDust(share_amount) ==
    BLt(share_amount, N(DUST_THRESHOLD))

\* The share total of the pool left as it was when a position closes.
SharesAfterClose_Kept(total_shares_bps, share_bps) ==
    total_shares_bps

\* pool.total_shares_bps.checked_sub(position.share_bps), where it is Some.
SharesAfterClose(total_shares_bps, share_bps) ==
    BSub(total_shares_bps, share_bps)

\* The share of the balance taken per mille instead of per ten thousand.
ShareAmount_PerMille(current_pool_balance, share_bps) ==
    BDiv(Wrap64(BMul(current_pool_balance, share_bps)), N(1000))

\* (current_pool_balance * position.share_bps) / 10000 in u64, where the
\* product does not panic: it is taken modulo 2^64 before the division.
ShareAmount(current_pool_balance, share_bps) ==
    BDiv10000(Wrap64(BMul(current_pool_balance, share_bps)))

\* The principal total reduced by what the owner received only.
StakedAfterClose_NetOnly(total_staked, withdrawal_amount, fee) ==
    BSub(total_staked, withdrawal_amount)

\* pool.total_staked.checked_sub(withdrawal_amount + fee), where it is Some.
StakedAfterClose(total_staked, withdrawal_amount, fee) ==
    BSub(total_staked, BAdd(withdrawal_amount, fee))

\* The payout with the fee transfer issued whatever the fee.
PayoutTransfers_AlwaysFee(withdrawal_amount, fee) ==
    <<Transfer("vault", "user", withdrawal_amount),
      Transfer("vault", "fee", fee)>>

\* The transfers of withdraw: withdrawal_amount to the user and, if
\* fee > 0, fee to the fee account.
PayoutTransfers(withdrawal_amount, fee) ==
    <<Transfer("vault", "user", withdrawal_amount)>>
        \o (IF fee # Zero THEN <<Transfer("vault", "fee", fee)>> ELSE <<>>)

\* withdraw(ctx).  ps: the caller's StakePosition; on Ok the account is
\* closed (close = owner).  custody: whether the token program accepts
\* the transfers out of the vault.
withdraw(po, ps, v, now, custody) ==
    LET o == Outcome(po, ps, v)
        prod == BMul(v, ps.share_bps)
        share_amount == ShareAmount(v, ps.share_bps)
        profit ==
            IF BLt(ps.initial_stake, share_amount)
            THEN BSub(share_amount, ps.initial_stake) ELSE Zero
        fprod == BMul(profit, N(UNSTAKE_FEE_BPS))
        fee == BDiv10000(Wrap64(fprod))
        withdrawal_amount == BSub(share_amount, fee)
        c1 == [o EXCEPT !.share_amount = share_amount]
        c2 == [c1 EXCEPT !.fee = fee, !.withdrawal_amount = withdrawal_amount]
        \* after the transfer to the user and, if fee > 0, of the fee
        c3 == [c2 EXCEPT
                 !.vault = BSub(v, share_amount),
                 !.xfers = PayoutTransfers(withdrawal_amount, fee)]
        \* after pool.total_shares_bps = ...checked_sub(position.share_bps)
        c4 == [c3 EXCEPT !.pool.total_shares_bps =
                             SharesAfterClose(po.total_shares_bps, ps.share_bps)]
        c5 == [c4 EXCEPT !.pool.total_staked =
                             StakedAfterClose(po.total_staked,
                                              withdrawal_amount, fee),
                         !.pos = NoPosition]
    IN  IF ~LockElapsed(po.emergency_mode, now, ps.stake_timestamp)
            THEN [o EXCEPT !.err = "StakeDurationNotMet"]
        ELSE IF overflow_checks /\ ~Fits64(prod) THEN [o EXCEPT !.err = "Panic"]
        ELSE IF IsDust(share_amount)
            THEN [c1 EXCEPT !.err = "DustAmount"]
        ELSE IF overflow_checks /\ ~Fits64(fprod) THEN [c1 EXCEPT !.err = "Panic"]
        ELSE IF ~custody \/ BLt(v, share_amount)
            THEN [c2 EXCEPT !.err = "TokenError"]
        ELSE IF BLt(po.total_shares_bps, ps.share_bps)
            THEN [c3 EXCEPT !.err = "MathOverflow"]
        ELSE IF BLt(po.total_staked, BAdd(withdrawal_amount, fee))
            THEN [c4 EXCEPT !.err = "MathOverflow"]
        ELSE c5

\* Account validation failed before the handler ran.
AccountError(po, ps, v) ==
    [Outcome(po, ps, v) EXCEPT !.err = "AccountError"]

(***************************************************************************)
(* The record of a call kept in `last`.                                    *)
(***************************************************************************)
Call(op, caller, agent, amount, r) ==
    [op |-> op, caller |-> caller, agent |-> agent, amount |-> amount,
     err |-> r.err, xfers |-> IF r.err = "Ok" THEN r.xfers ELSE <<>>,
     issued |-> r.xfers, swapped |-> r.swapped, fee |-> r.fee,
     stake_amount |-> r.stake_amount, share_bps |-> r.share_bps,
     share_amount |-> r.share_amount,
     withdrawal_amount |-> r.withdrawal_amount,
     trade_size_bps |-> r.trade_size_bps]

NoCall(op) ==
    Call(op, "none", "none", Zero, Outcome(NoPool, NoPosition, Zero))

Init ==
    /\ overflow_checks \in BOOLEAN
    /\ pool = [a \in PoolAgents |-> NoPool]
    /\ position = [k \in Users \X PoolAgents |-> NoPosition]
    /\ vault = [a \in PoolAgents |-> Zero]
    /\ clock = 0
    /\ last = NoCall("none")
    /\ hist = [stakes |-> 0, trades |-> 0,
               closed_principal |-> Zero, redeemed |-> Zero]

\* The position account created if needed: an existing one is accepted.
PositionTaken_Never(ps) ==
    FALSE

\* `init` on stake_position fails when the account of these seeds already
\* exists, that is while the owner's position in the pool is open.
PositionTaken(ps) ==
    ps.open

\* The position account written over every position of the same pool.
StorePosition_PoolWide(positions, key, ps) ==
    [k \in DOMAIN positions |->
        IF k[2] = key[2] THEN ps ELSE positions[k]]

\* stake_position is the one position account of the instruction: the
\* program-derived address of seeds [b"stake", agent_pool, owner].  What the
\* transaction commits is written there and nowhere else.
StorePosition(positions, key, ps) ==
    [positions EXCEPT ![key] = ps]

(***************************************************************************)
(* One action per instruction, for every caller and input.                *)
(***************************************************************************)

\* InitializeAgentPool: `init` fails when the pool account already exists.
Initialize(a) ==
    \E r \in {IF pool[a].exists
              THEN AccountError(pool[a], NoPosition, vault[a])
              ELSE Outcome(initialize_agent_pool(a), NoPosition, Zero)} :
        /\ pool' = [pool EXCEPT ![a] = Rollback(r.err, @, r.pool)]
        /\ vault' = [vault EXCEPT ![a] = Rollback(r.err, @, r.vault)]
        /\ last' = Call("initialize", a, a, Zero, r)
        /\ UNCHANGED <<overflow_checks, position, clock, hist>>

\* Stake: agent_pool must exist and `init` of stake_position fails when the
\* user already has a position in the pool.
Stake(user, a, amount, funded) ==
    /\ \E r \in {IF ~pool[a].exists \/ PositionTaken(position[<<user, a>>])
                 THEN AccountError(pool[a], position[<<user, a>>], vault[a])
                 ELSE stake(pool[a], user, amount, funded, vault[a], clock)} :
          /\ pool' = [pool EXCEPT ![a] = Rollback(r.err, @, r.pool)]
          /\ position' = StorePosition(position, <<user, a>>,
                                        Rollback(r.err, position[<<user, a>>],
                                                 r.pos))
          /\ vault' = [vault EXCEPT ![a] = Rollback(r.err, @, r.vault)]
          /\ last' = Call("stake", user, a, amount, r)
          /\ hist' = IF r.err = "Ok" THEN [hist EXCEPT !.stakes = @ + 1]
                     ELSE hist
          /\ UNCHANGED <<overflow_checks, clock>>

ExecuteTrade(caller, a, amount_in, result) ==
    /\ \E r \in {IF ~pool[a].exists
                 THEN AccountError(pool[a], NoPosition, vault[a])
                 ELSE execute_trade(pool[a], caller, amount_in, result,
                                    vault[a])} :
          /\ pool' = [pool EXCEPT ![a] = Rollback(r.err, @, r.pool)]
          /\ vault' = [vault EXCEPT ![a] = Rollback(r.err, @, r.vault)]
          /\ last' = Call("execute_trade", caller, a, amount_in, r)
          /\ hist' = IF r.err = "Ok" THEN [hist EXCEPT !.trades = @ + 1]
                     ELSE hist
          /\ UNCHANGED <<overflow_checks, position, clock>>

\* Withdraw: the seeds and has_one = owner make stake_position the caller's
\* own position, which must exist.
Withdraw(owner, a, custody) ==
    \E r \in {IF ~pool[a].exists \/ ~position[<<owner, a>>].open
              THEN AccountError(pool[a], position[<<owner, a>>], vault[a])
              ELSE withdraw(pool[a], position[<<owner, a>>], vault[a],
                            clock, custody)} :
        /\ pool' = [pool EXCEPT ![a] = Rollback(r.err, @, r.pool)]
        /\ position' = StorePosition(position, <<owner, a>>,
                                      Rollback(r.err, position[<<owner, a>>],
                                               r.pos))
        /\ vault' = [vault EXCEPT ![a] = Rollback(r.err, @, r.vault)]
        /\ last' = Call("withdraw", owner, a, Zero, r)
        /\ hist' = IF r.err = "Ok"
                   THEN [hist EXCEPT
                           !.closed_principal =
                               BAdd(@, position[<<owner, a>>].initial_stake),
                           !.redeemed = BAdd(@, r.share_amount)]
                   ELSE hist
        /\ UNCHANGED <<overflow_checks, clock>>

\* The cluster clock advances by the lock duration.
Tick ==
    /\ clock' = clock + MIN_STAKE_DURATION
    /\ last' = NoCall("tick")
    /\ UNCHANGED <<overflow_checks, pool, position, vault, hist>>

\* The pause / emergency switch of a pool.  No instruction of the program
\* writes these two fields; the switch is the control surface the
\* specification names as lying outside the program's scope.
SetPaused(a, b) ==
    /\ pool[a].exists
    /\ pool[a].paused # b
    /\ pool' = [pool EXCEPT ![a].paused = b]
    /\ last' = NoCall("set_paused")
    /\ UNCHANGED <<overflow_checks, position, vault, clock, hist>>

SetEmergencyMode(a, b) ==
    /\ pool[a].exists
    /\ pool[a].emergency_mode # b
    /\ pool' = [pool EXCEPT ![a].emergency_mode = b]
    /\ last' = NoCall("set_emergency_mode")
    /\ UNCHANGED <<overflow_checks, position, vault, clock, hist>>

(***************************************************************************)
(* The program: its four instructions under every caller and input, and   *)
(* the clock.  The counts of successful stakes and swaps and the clock    *)
(* are capped to keep the exploration finite.                             *)
(***************************************************************************)
Next ==
    \/ \E a \in PoolAgents : Initialize(a)
    \/ /\ hist.stakes < MaxStakes
       /\ \E u \in Users, a \in PoolAgents, amt \in StakeAmounts :
             Stake(u, a, amt, TRUE)
    \/ /\ hist.stakes < MaxStakes
       /\ \E u \in Users, a \in PoolAgents : Stake(u, a, N(MIN_STAKE_SOL), FALSE)
    \/ /\ hist.trades < MaxTrades
       /\ \E a \in PoolAgents, res \in SwapResults :
             ExecuteTrade(a, a, N(388000000), res)
    \/ /\ hist.trades < MaxTrades
       /\ \E a \in PoolAgents, amt \in TradeAmounts :
             ExecuteTrade(a, a, amt, "loss")
    \/ /\ hist.trades < MaxTrades
       /\ \E a \in PoolAgents : \E c \in Callers \ {a} :
             ExecuteTrade(c, a, N(388000000), "loss")
    \/ \E u \in Users, a \in PoolAgents, ok \in BOOLEAN : Withdraw(u, a, ok)
    \/ /\ clock < MaxTicks * MIN_STAKE_DURATION
       /\ Tick

Spec == Init /\ [][Next]_vars

(***************************************************************************)
(* The program driven by one trading pattern: alice stakes 2 SOL and the  *)
(* agent's swaps all come back empty, down to a vault of dust.            *)
(***************************************************************************)
NextDrain ==
    \/ \E a \in PoolAgents : Initialize(a)
    \/ /\ hist.stakes < MaxStakes
       /\ \E a \in PoolAgents : Stake("alice", a, N(2000000000), TRUE)
    \/ /\ hist.trades < MaxDrainTrades
       /\ \E a \in PoolAgents, amt \in DrainAmounts :
             ExecuteTrade(a, a, amt, "loss")
    \/ \E u \in Users, a \in PoolAgents : Withdraw(u, a, TRUE)
    \/ /\ clock < MaxTicks * MIN_STAKE_DURATION
       /\ Tick

SpecDrain == Init /\ [][NextDrain]_vars

(***************************************************************************)
(* The program with an agent who trades at a gain as well as at a loss,   *)
(* long enough for a staker who came in after a loss to leave in profit.  *)
(***************************************************************************)
NextProfit ==
    \/ \E a \in PoolAgents : Initialize(a)
    \/ /\ hist.stakes < MaxStakes
       /\ \E u \in Users, a \in PoolAgents : Stake(u, a, N(2000000000), TRUE)
    \/ /\ hist.trades < MaxProfitTrades
       /\ \E a \in PoolAgents, res \in {"loss", "gain"} :
             ExecuteTrade(a, a, N(388000000), res)
    \/ \E u \in Users, a \in PoolAgents : Withdraw(u, a, TRUE)
    \/ /\ clock < MaxTicks * MIN_STAKE_DURATION
       /\ Tick

SpecProfit == Init /\ [][NextProfit]_vars

(***************************************************************************)
(* The program under stakes at the wide end of u64, where the build       *)
(* profile decides what the unchecked arithmetic does.                    *)
(***************************************************************************)
NextWide ==
    \/ \E a \in PoolAgents : Initialize(a)
    \/ /\ hist.stakes < MaxStakes
       /\ \E u \in Users, a \in PoolAgents, amt \in WideAmounts :
             Stake(u, a, amt, TRUE)
    \/ /\ hist.trades < MaxTrades
       /\ \E a \in PoolAgents : ExecuteTrade(a, a, N(388000000), "loss")
    \/ \E u \in Users, a \in PoolAgents, ok \in BOOLEAN : Withdraw(u, a, ok)
    \/ /\ clock < MaxTicks * MIN_STAKE_DURATION
       /\ Tick

SpecWide == Init /\ [][NextWide]_vars

(***************************************************************************)
(* The program together with the pause / emergency switch.                *)
(***************************************************************************)
NextSwitch ==
    \/ \E a \in PoolAgents : Initialize(a)
    \/ /\ hist.stakes < MaxStakes
       /\ \E u \in Users, a \in PoolAgents : Stake(u, a, N(2000000000), TRUE)
    \/ /\ hist.trades < MaxTrades
       /\ \E a \in PoolAgents, c \in Callers :
             ExecuteTrade(c, a, N(388000000), "loss")
    \/ \E u \in Users, a \in PoolAgents, ok \in BOOLEAN : Withdraw(u, a, ok)
    \/ /\ clock < MaxTicks * MIN_STAKE_DURATION
       /\ Tick
    \/ \E a \in PoolAgents, b \in BOOLEAN : SetPaused(a, b)
    \/ \E a \in PoolAgents, b \in BOOLEAN : SetEmergencyMode(a, b)

SpecSwitch == Init /\ [][NextSwitch]_vars
(***************************************************************************)
(* Properties.                                                             *)
(***************************************************************************)

\* The reference arithmetic of the specification, on unbounded naturals.
FloorMulDiv(a, b, c) ==
    BDiv(BMul(a, b), c)

OpenUsers(a) ==
    {u \in Users : position[<<u, a>>].open}

RECURSIVE SumShares(_, _)
SumShares(us, a) ==
    IF us = {} THEN Zero
    ELSE LET u == CHOOSE x \in us : TRUE
         IN  BAdd(position[<<u, a>>].share_bps, SumShares(us \ {u}, a))

RECURSIVE SumInitialStake(_, _)
SumInitialStake(us, a) ==
    IF us = {} THEN Zero
    ELSE LET u == CHOOSE x \in us : TRUE
         IN  BAdd(position[<<u, a>>].initial_stake,
                  SumInitialStake(us \ {u}, a))

Instructions == {"initialize", "stake", "execute_trade", "withdraw"}

\* C1: in every reachable state the total_shares_bps of every pool lies
\* between 0 and 10000.
C1_SharesWithinCap ==
    \A a \in PoolAgents :
        pool[a].exists =>
            /\ BLe(Zero, pool[a].total_shares_bps)
            /\ BLe(pool[a].total_shares_bps, N(10000))

\* The cap is met and enforced: the shares stand at 10000 and a stake that
\* would add to them has just been refused.
C1_Witness ==
    \E a \in PoolAgents :
        /\ pool[a].exists
        /\ pool[a].total_shares_bps = N(10000)
        /\ last.op = "stake" /\ last.agent = a
        /\ last.err = "InvalidShare"
        /\ BLe(N(MIN_SHARE_BPS), last.share_bps)

\* C2: in every reachable state, for every pool, the share_bps of its
\* open positions add up to the pool's total_shares_bps.
C2_SharesSumToTotal ==
    \A a \in PoolAgents :
        IF pool[a].exists
        THEN SumShares(OpenUsers(a), a) = pool[a].total_shares_bps
        ELSE OpenUsers(a) = {}

\* A withdrawal has closed a position and two later stakes have opened two
\* positions side by side.
C2_Witness ==
    \E a \in PoolAgents :
        /\ OpenUsers(a) = Users
        /\ hist.redeemed # Zero
        /\ last.op = "stake" /\ last.err = "Ok"
        /\ BLt(Zero, pool[a].total_shares_bps)
        /\ BLt(pool[a].total_shares_bps, N(10000))

\* The redemption arithmetic of the specification for the position of
\* owner u in pool a, against the current vault balance.
RefShareAmount(u, a) ==
    FloorMulDiv(vault[a], position[<<u, a>>].share_bps, N(10000))

RefProfit(u, a) ==
    IF BLt(position[<<u, a>>].initial_stake, RefShareAmount(u, a))
    THEN BSub(RefShareAmount(u, a), position[<<u, a>>].initial_stake)
    ELSE Zero

RefExitFee(u, a) ==
    FloorMulDiv(RefProfit(u, a), N(UNSTAKE_FEE_BPS), N(10000))

\* The lock of the position of u in a is over, or the pool is in
\* emergency mode.
Unlocked(u, a) ==
    \/ pool[a].emergency_mode
    \/ clock >= position[<<u, a>>].stake_timestamp + MIN_STAKE_DURATION

\* C3: once the lock of a position has elapsed (or the pool is in emergency
\* mode) and floor(vault * share_bps / 10000) is at least DUST_THRESHOLD,
\* the owner's withdraw succeeds and pays the owner share_amount minus the
\* exit fee, whatever the vault balance is relative to total_staked.
C3_WithdrawSucceeds ==
    [][\A u \in Users, a \in PoolAgents :
          ( /\ pool[a].exists
            /\ position[<<u, a>>].open
            /\ Unlocked(u, a)
            /\ BLe(N(DUST_THRESHOLD), RefShareAmount(u, a))
            /\ Withdraw(u, a, TRUE) )
          => /\ last'.err = "Ok"
             /\ Len(last'.xfers) >= 1
             /\ last'.xfers[1] =
                    Transfer("vault", "user",
                             BSub(RefShareAmount(u, a), RefExitFee(u, a)))
             /\ ~position'[<<u, a>>].open]_vars

\* C4: an execute_trade by the pool's agent on an unpaused pool whose
\* amount_in makes floor(amount_in * 10000 / total_staked) exceed 2000
\* fails with TradeSizeTooLarge, and no swap is delegated.
C4_OversizedTradeRejected ==
    [][\A a \in PoolAgents :
          ( /\ last'.op = "execute_trade"
            /\ last'.agent = a
            /\ pool[a].exists
            /\ last'.caller = pool[a].agent
            /\ ~pool[a].paused
            /\ pool[a].total_staked # Zero
            /\ BLt(N(MAX_TRADE_SIZE_BPS),
                   FloorMulDiv(last'.amount, N(10000), pool[a].total_staked)) )
          => /\ last'.err = "TradeSizeTooLarge"
             /\ ~last'.swapped
             /\ vault' = vault]_vars

\* C5: an instruction that returns an error leaves every pool, every
\* position and every vault as they were before the call.
C5_RejectedLeavesStateUnchanged ==
    [][(last'.op \in Instructions /\ last'.err # "Ok")
          => /\ pool' = pool
             /\ position' = position
             /\ vault' = vault]_vars

\* A withdraw has failed at its last step, after the transfers were issued
\* and the share total was rewritten in memory, and the position is still
\* open with the pool's shares intact.
C5_Witness ==
    \E u \in Users, a \in PoolAgents :
        /\ last.op = "withdraw" /\ last.caller = u /\ last.agent = a
        /\ last.err = "MathOverflow"
        /\ last.issued # <<>>
        /\ position[<<u, a>>].open
        /\ pool[a].total_shares_bps = position[<<u, a>>].share_bps

\* C6: in every reachable state total_staked is the sum of initial_stake
\* over the open positions of the pool, and 0 when none is open.
C6_TotalStakedIsOpenPrincipal ==
    \A a \in PoolAgents :
        pool[a].exists =>
            pool[a].total_staked = SumInitialStake(OpenUsers(a), a)

\* The stake arithmetic of the specification for a gross amount staked
\* into pool a.
RefStakeFee(amount) ==
    FloorMulDiv(amount, N(STAKE_FEE_BPS), N(10000))

RefStakeAmount(amount) ==
    BSub(amount, RefStakeFee(amount))

RefShareBps(amount, a) ==
    IF pool[a].total_staked = Zero THEN N(10000)
    ELSE FloorMulDiv(RefStakeAmount(amount), N(10000),
                     BAdd(pool[a].total_staked, RefStakeAmount(amount)))

\* C7: a successful stake of gross amount a takes fee = floor(a * 300 /
\* 10000), stakes a - fee, issues share_bps = 10000 into an empty pool and
\* floor(stake_amount * 10000 / (total_staked + stake_amount)) otherwise,
\* with share_bps in [MIN_SHARE_BPS, 10000]; it adds exactly stake_amount
\* to total_staked and share_bps to total_shares_bps and creates the
\* position with these values.  A first stake of 2,000,000,000 gives fee
\* 60,000,000, total_staked 1,940,000,000 and total_shares_bps 10000.
C7_StakeArithmetic ==
    [][\A u \in Users, a \in PoolAgents :
          ( /\ last'.op = "stake" /\ last'.caller = u /\ last'.agent = a
            /\ last'.err = "Ok" )
          => LET amount == last'.amount
                 fee == RefStakeFee(amount)
                 stake_amount == RefStakeAmount(amount)
                 share_bps == RefShareBps(amount, a)
             IN  /\ last'.fee = fee
                 /\ last'.stake_amount = stake_amount
                 /\ last'.share_bps = share_bps
                 /\ BLe(N(MIN_SHARE_BPS), share_bps)
                 /\ BLe(share_bps, N(10000))
                 /\ pool'[a].total_staked =
                        BAdd(pool[a].total_staked, stake_amount)
                 /\ pool'[a].total_shares_bps =
                        BAdd(pool[a].total_shares_bps, share_bps)
                 /\ position'[<<u, a>>].open
                 /\ position'[<<u, a>>].initial_stake = stake_amount
                 /\ position'[<<u, a>>].share_bps = share_bps
                 /\ position'[<<u, a>>].stake_timestamp = clock
                 /\ (amount = N(2000000000) /\ pool[a].total_staked = Zero)
                        => /\ last'.fee = N(60000000)
                           /\ pool'[a].total_staked = N(1940000000)
                           /\ pool'[a].total_shares_bps = N(10000)]_vars

\* C8: a stake of at least the minimum amount, into an unpaused pool by a
\* user without a position, whose share_bps passes the minimum-share check
\* and would take total_shares_bps above 10000, fails with InvalidShare and
\* leaves pools, positions and vaults unchanged.
C8_ShareCapRejects ==
    [][\A u \in Users, a \in PoolAgents :
          ( /\ last'.op = "stake" /\ last'.caller = u /\ last'.agent = a
            /\ pool[a].exists
            /\ ~position[<<u, a>>].open
            /\ ~pool[a].paused
            /\ BLe(N(MIN_STAKE_SOL), last'.amount)
            /\ BLe(N(MIN_SHARE_BPS), RefShareBps(last'.amount, a))
            /\ BLt(N(10000), BAdd(pool[a].total_shares_bps,
                                  RefShareBps(last'.amount, a))) )
          => /\ last'.err = "InvalidShare"
             /\ pool' = pool
             /\ position' = position
             /\ vault' = vault]_vars

\* C9: a withdraw while emergency_mode is false and now < stake_timestamp
\* + MIN_STAKE_DURATION fails with StakeDurationNotMet and the position
\* stays open as it was; while emergency_mode is true the lock check is
\* skipped whatever the time, and the withdraw goes on to compute
\* share_amount.
C9_LockUnlessEmergency ==
    [][\A u \in Users, a \in PoolAgents :
          ( /\ last'.op = "withdraw" /\ last'.caller = u /\ last'.agent = a
            /\ pool[a].exists
            /\ position[<<u, a>>].open )
          => /\ ( /\ ~pool[a].emergency_mode
                  /\ clock < position[<<u, a>>].stake_timestamp
                                + MIN_STAKE_DURATION )
                => /\ last'.err = "StakeDurationNotMet"
                   /\ position'[<<u, a>>] = position[<<u, a>>]
                   /\ position'[<<u, a>>].open
             /\ pool[a].emergency_mode
                => /\ last'.err # "StakeDurationNotMet"
                   /\ last'.share_amount = RefShareAmount(u, a)]_vars

\* In emergency mode a position has been withdrawn before any time has
\* passed since it was staked.
C9_Witness ==
    \E u \in Users, a \in PoolAgents :
        /\ last.op = "withdraw" /\ last.caller = u /\ last.agent = a
        /\ last.err = "Ok"
        /\ pool[a].emergency_mode
        /\ clock = 0
        /\ BLe(N(DUST_THRESHOLD), last.share_amount)
        /\ ~position[<<u, a>>].open

\* C10: a withdraw past the lock for which floor(vault balance * share_bps
\* / 10000) is below DUST_THRESHOLD fails with DustAmount, issues no
\* transfer, changes no pool and no vault, and leaves the position open.
C10_DustRejected ==
    [][\A u \in Users, a \in PoolAgents :
          ( /\ last'.op = "withdraw" /\ last'.caller = u /\ last'.agent = a
            /\ pool[a].exists
            /\ position[<<u, a>>].open
            /\ Unlocked(u, a)
            /\ BLt(RefShareAmount(u, a), N(DUST_THRESHOLD)) )
          => /\ last'.err = "DustAmount"
             /\ last'.issued = <<>>
             /\ pool' = pool
             /\ vault' = vault
             /\ position' = position
             /\ position'[<<u, a>>].open]_vars

\* Trading losses have left 500 in the vault; the holder of all shares has
\* asked to withdraw after the lock and was refused for dust, the position
\* still open.
C10_Witness ==
    \E u \in Users, a \in PoolAgents :
        /\ last.op = "withdraw" /\ last.caller = u /\ last.agent = a
        /\ last.err = "DustAmount"
        /\ vault[a] = N(500)
        /\ last.share_amount = N(500)
        /\ position[<<u, a>>].open
        /\ clock >= position[<<u, a>>].stake_timestamp + MIN_STAKE_DURATION

\* C11: a successful withdraw takes profit = max(0, share_amount -
\* initial_stake), fee = floor(profit * 1000 / 10000) and withdrawal_amount
\* = share_amount - fee, so withdrawal_amount + fee = share_amount; with
\* share_amount <= initial_stake the fee is 0 and the one transfer issued is
\* share_amount to the owner; with fee > 0 exactly two transfers are issued.
C11_WithdrawFee ==
    [][\A u \in Users, a \in PoolAgents :
          ( /\ last'.op = "withdraw" /\ last'.caller = u /\ last'.agent = a
            /\ last'.err = "Ok" )
          => LET share_amount == last'.share_amount
                 initial_stake == position[<<u, a>>].initial_stake
                 profit == IF BLt(initial_stake, share_amount)
                           THEN BSub(share_amount, initial_stake) ELSE Zero
                 fee == FloorMulDiv(profit, N(1000), N(10000))
             IN  /\ last'.fee = fee
                 /\ last'.withdrawal_amount = BSub(share_amount, fee)
                 /\ BAdd(last'.withdrawal_amount, last'.fee) = share_amount
                 /\ BLe(share_amount, initial_stake)
                       => /\ last'.fee = Zero
                          /\ last'.xfers =
                                <<Transfer("vault", "user", share_amount)>>
                 /\ last'.fee # Zero
                       => last'.xfers =
                             <<Transfer("vault", "user",
                                        last'.withdrawal_amount),
                               Transfer("vault", "fee", last'.fee)>>]_vars

\* A staker has withdrawn at a profit: a fee was taken and two transfers
\* were issued.
C11_Witness ==
    /\ last.op = "withdraw"
    /\ last.err = "Ok"
    /\ last.fee # Zero
    /\ Len(last.xfers) = 2
    /\ BAdd(last.withdrawal_amount, last.fee) = last.share_amount

\* C12: a successful withdraw lowers total_shares_bps by the position's
\* share_bps and total_staked by share_amount = withdrawal_amount + fee, the
\* value derived from the vault balance read at the start, and closes the
\* position; nothing of it stays open.
C12_WithdrawCloses ==
    [][\A u \in Users, a \in PoolAgents :
          ( /\ last'.op = "withdraw" /\ last'.caller = u /\ last'.agent = a
            /\ last'.err = "Ok" )
          => /\ position[<<u, a>>].open
             /\ BAdd(pool'[a].total_shares_bps, position[<<u, a>>].share_bps)
                    = pool[a].total_shares_bps
             /\ last'.share_amount
                    = BAdd(last'.withdrawal_amount, last'.fee)
             /\ BAdd(pool'[a].total_staked, last'.share_amount)
                    = pool[a].total_staked
             /\ position'[<<u, a>>] = NoPosition]_vars

\* The only holder has left at a profit: the position is gone, no shares are
\* outstanding, and the fee was part of what came off total_staked.
C12_Witness ==
    \E u \in Users, a \in PoolAgents :
        /\ last.op = "withdraw" /\ last.caller = u /\ last.agent = a
        /\ last.err = "Ok"
        /\ last.fee # Zero
        /\ ~position[<<u, a>>].open
        /\ OpenUsers(a) = {}
        /\ pool[a].total_shares_bps = Zero
        /\ BLt(last.fee, hist.redeemed)

\* C13: execute_trade, whether it succeeds or fails, leaves every field of
\* every pool and every position unchanged; only the vault balance may change.
C13_TradeWritesNoAccount ==
    [][last'.op = "execute_trade" => pool' = pool /\ position' = position]_vars

\* A swap has gone through and has changed the vault balance, so that it no
\* longer equals the pool's total_staked, while a position is open.
C13_Witness ==
    \E a \in PoolAgents :
        /\ last.op = "execute_trade" /\ last.agent = a
        /\ last.err = "Ok" /\ last.swapped
        /\ OpenUsers(a) # {}
        /\ vault[a] # pool[a].total_staked

\* C14 as stated: on an existing pool, every execute_trade on a paused pool
\* fails with PoolPaused, every execute_trade by a caller other than
\* pool.agent fails with Unauthorized, and neither delegates a swap.
C14_TradeGuards_AsStated ==
    [][\A a \in PoolAgents :
          ( /\ last'.op = "execute_trade" /\ last'.agent = a
            /\ pool[a].exists )
          => /\ pool[a].paused
                  => last'.err = "PoolPaused" /\ ~last'.swapped
             /\ last'.caller # pool[a].agent
                  => last'.err = "Unauthorized" /\ ~last'.swapped]_vars

\* C14: execute_trade delegates a swap only if the pool is not paused and the
\* caller is pool.agent.  A call by any other caller fails with Unauthorized,
\* paused or not; a call by pool.agent on a paused pool fails with
\* PoolPaused; neither delegates a swap.
C14_TradeGuards ==
    [][\A a \in PoolAgents :
          ( /\ last'.op = "execute_trade" /\ last'.agent = a
            /\ pool[a].exists )
          => /\ last'.swapped
                  => ~pool[a].paused /\ last'.caller = pool[a].agent
             /\ last'.caller # pool[a].agent
                  => last'.err = "Unauthorized" /\ ~last'.swapped
             /\ pool[a].paused /\ last'.caller = pool[a].agent
                  => last'.err = "PoolPaused" /\ ~last'.swapped]_vars

\* The agent has called execute_trade on a paused pool with open positions and
\* was turned away with PoolPaused.
C14_Witness ==
    \E a \in PoolAgents :
        /\ last.op = "execute_trade" /\ last.agent = a
        /\ pool[a].exists /\ pool[a].paused
        /\ last.caller = pool[a].agent
        /\ pool[a].total_staked # Zero
        /\ last.err = "PoolPaused" /\ ~last.swapped

\* C15: every failed call of an instruction, failures of the collaborators
\* (account validation, token transfer) aside, ends with one of the error
\* kinds the instructions use (every ErrorCode but the reserved
\* EmergencyOnly), never with an abort outside the enumeration: arithmetic
\* that does not fit 64 bits in stake or withdraw is MathOverflow, and
\* execute_trade on a pool with total_staked = 0 ends in an enumerated kind.
C15_FailuresAreEnumerated ==
    ( /\ last.op \in Instructions
      /\ last.err \notin {"Ok", "AccountError", "TokenError"} )
    => last.err \in ErrorCode \ {"EmergencyOnly"}

\* C16: an open position keeps all its fields through every step, whatever
\* the instruction, the caller and the result, except the step that is its
\* owner's successful withdraw, which closes it.
C16_PositionIsFrozen ==
    [][\A u \in Users, a \in PoolAgents :
          position[<<u, a>>].open
          => \/ position'[<<u, a>>] = position[<<u, a>>]
             \/ /\ last'.op = "withdraw" /\ last'.caller = u
                /\ last'.agent = a /\ last'.err = "Ok"
                /\ position'[<<u, a>>] = NoPosition]_vars

\* A position opened at an earlier time is still open after trades and after
\* another owner, who had staked beside it, has withdrawn.
C16_Witness ==
    \E u \in Users, a \in PoolAgents :
        /\ OpenUsers(a) = {u}
        /\ position[<<u, a>>].stake_timestamp < clock
        /\ hist.trades > 0
        /\ last.op = "withdraw" /\ last.agent = a /\ last.caller # u
        /\ last.err = "Ok"

\* C17: each (owner, pool) pair has at most one position.  A stake by an
\* owner whose position in the pool is open is rejected and changes neither
\* that position nor the pool; a withdraw by an owner with no open position
\* is rejected; a stake by an owner with no open position, such as one who
\* has withdrawn, is not turned away for the position account.
C17_OnePositionPerOwner ==
    [][\A u \in Users, a \in PoolAgents :
          ( /\ last'.caller = u /\ last'.agent = a /\ pool[a].exists )
          => /\ ( last'.op = "stake" /\ position[<<u, a>>].open )
                  => /\ last'.err # "Ok"
                     /\ position' = position
                     /\ pool' = pool
                     /\ vault' = vault
             /\ ( last'.op = "withdraw" /\ ~position[<<u, a>>].open )
                  => /\ last'.err # "Ok"
                     /\ position' = position
                     /\ pool' = pool
                     /\ vault' = vault
             /\ ( last'.op = "stake" /\ ~position[<<u, a>>].open )
                  => last'.err # "AccountError"]_vars

\* Three stakes by two owners have succeeded and both hold a position: one
\* of them has withdrawn and staked again.
C17_Witness ==
    \E a \in PoolAgents :
        /\ hist.stakes = 3
        /\ hist.closed_principal # Zero
        /\ OpenUsers(a) = Users
        /\ last.op = "stake" /\ last.agent = a /\ last.err = "Ok"
        /\ position[<<last.caller, a>>].stake_timestamp = clock

\* C18: every withdraw that gets past the lock check, for every vault
\* balance and share_bps, computes share_amount as the exact
\* floor(current_pool_balance * share_bps / 10000); the product is not
\* truncated or wrapped to 64 bits before the division.
C18_ShareAmountIsExactFloor ==
    [][\A u \in Users, a \in PoolAgents :
          ( /\ last'.op = "withdraw" /\ last'.caller = u /\ last'.agent = a
            /\ pool[a].exists
            /\ position[<<u, a>>].open
            /\ Unlocked(u, a) )
          => last'.share_amount = RefShareAmount(u, a)]_vars

\* C19: when a holder withdraws successfully while another position of the
\* same pool is open, the share_amount the other holder's withdraw would
\* compute is the same after that withdrawal as before it, so that what each
\* of the two receives does not depend on who withdraws first.
C19_OrderIndependent ==
    [][\A u \in Users, w \in Users, a \in PoolAgents :
          ( /\ u # w
            /\ last'.op = "withdraw" /\ last'.caller = w /\ last'.agent = a
            /\ last'.err = "Ok"
            /\ position[<<u, a>>].open )
          => ShareAmount(vault'[a], position[<<u, a>>].share_bps)
                = ShareAmount(vault[a], position[<<u, a>>].share_bps)]_vars

\* C20: every withdraw that computes a payout computes one of at most the
\* vault balance it read at its start; a successful one pays out
\* withdrawal_amount + fee = share_amount in its transfers and leaves the
\* vault with the balance it read less share_amount, which is not negative.
C20_PayoutWithinVault ==
    [][\A a \in PoolAgents :
          ( /\ last'.op = "withdraw" /\ last'.agent = a
            /\ last'.err \in {"Ok", "TokenError", "MathOverflow",
                               "DustAmount"} )
          => /\ BLe(last'.share_amount, vault[a])
             /\ last'.err = "Ok"
                  => /\ BAdd(last'.withdrawal_amount, last'.fee)
                            = last'.share_amount
                     /\ BLe(BAdd(last'.withdrawal_amount, last'.fee),
                            vault[a])
                     /\ BAdd(vault'[a], last'.share_amount) = vault[a]]_vars

\* A holder of part of the pool has been paid out of a vault that trades had
\* changed, and the rest of the balance is still in the vault.
C20_Witness ==
    \E a \in PoolAgents :
        /\ last.op = "withdraw" /\ last.agent = a /\ last.err = "Ok"
        /\ hist.trades > 0
        /\ OpenUsers(a) # {}
        /\ vault[a] # Zero
        /\ BLt(Zero, last.share_amount)

=============================================================================
